---- MODULE Spec2Model ----
(***************************************************************************)
(* Practice session engine of Line Learner (src/index.tsx, component App). *)
(*                                                                         *)
(* The component is modelled as the state machine React runs: every        *)
(* handler (button click, speech callback, timer) is one action, and an    *)
(* action includes the re-render it causes, i.e. the cleanup and the body  *)
(* of the effect of lines 304-307 when isPracticing or currentLineIndex    *)
(* changed.  Closures are modelled by what they captured: a recognition's  *)
(* onend handler holds the isPracticing of the render that created it.     *)
(*                                                                         *)
(* Browser contracts used (Web Speech API):                                *)
(*   - SpeechRecognition.abort() ends the request at once; its `end`       *)
(*     event is still delivered, later (preceded by error 'aborted').      *)
(*   - speechSynthesis.cancel() empties the queue; a cancelled utterance   *)
(*     gets an `error` event and no `end` event.                           *)
(*   - getUserMedia() resolves or rejects asynchronously.                  *)
(*                                                                         *)
(* Pending events and timers are delivered in any order; the delays of     *)
(* 1500 ms and 3000 ms are not modelled.  The settings are those typed in  *)
(* the setup view before the first session; sessions may be restarted.     *)
(* Texts (dialogue, transcript, pronunciations, voices) play no part in    *)
(* the turn taking and are left out of the engine.                         *)
(*                                                                         *)
(* Three parts of the component that work on texts are modelled beside the *)
(* engine, each under a specification of its own: the accuracy check       *)
(* (calculateAccuracy, SpecScore), the parsing of the script (SpecParse),  *)
(* and the saving and loading of the settings (SpecSettings).  A text is   *)
(* the sequence of its characters.                                         *)
(***************************************************************************)
EXTENDS Integers, Sequences, FiniteSets, TLC

VARIABLES
    isSpeechSupported,          \* the browser has (webkit)SpeechRecognition
    lines,                      \* parsed script: the character of each line
    selectedCharacter,          \* the user's role
    practiceMode,               \* "dialogue" | "read-along"
    isRecordAndPlaybackEnabled, \* settings toggle
    loopStartLine,              \* text of the input: <<>> is '', <<n>> is 'n'
    loopEndLine,
    isPracticing,
    currentLineIndex,
    status,                     \* "" | "Speaking" | "Listening" | "Finished" | "Sorry"
    utterances,                 \* speechSynthesis queue: line of each utterance
    recognitionRef,             \* recognitionRef.current: "null" | "listening" | "ended"
    recognitionLine,            \* currentLineIndex captured by the request in flight (else 0)
    orphans,                    \* requests in flight no longer held by recognitionRef
    abortedEnds,                \* aborted requests whose `end` event is still to come
    advanceTimers,              \* pending setTimeout(advanceLine, 1500), by origin
    stopTimers,                 \* pending setTimeout(handleStopPractice, 3000)
    micPending,                 \* unresolved getUserMedia promises
    mediaRecorder,              \* mediaRecorderRef.current: "null" | "recording" | "inactive"
    finishedCount,              \* history: 'Script finished!' branches taken this session
    loopedBack,                 \* history: advanceLine looped back this session
    trace,                      \* history: cursors produced by repeated advance
    original,                   \* calculateAccuracy's arguments: texts, as
    transcript,                 \*   sequences of one-character strings
    accuracyReport,             \* its result: sequence of [word, status]
    script,                     \* the script text of the setup view
    parsedLines,                \* `lines` as parsed: [character, direction, dialogue]
    characters,                 \* the roster
    settings,                   \* the other persisted state, as one record
    localStorage,               \* the item 'lineLearnerSettingsV2'
    saved,                      \* history: the state the last session left
    phase                       \* position of the step-by-step processes below

vars == <<isSpeechSupported, lines, selectedCharacter, practiceMode, isRecordAndPlaybackEnabled,
          loopStartLine, loopEndLine, isPracticing, currentLineIndex, status,
          utterances, recognitionRef, recognitionLine, orphans, abortedEnds,
          advanceTimers, stopTimers, micPending, mediaRecorder, finishedCount,
          loopedBack, trace, original, transcript, accuracyReport, script,
          parsedLines, characters, settings, localStorage, saved, phase>>

config == <<isSpeechSupported, lines, selectedCharacter, practiceMode,
            isRecordAndPlaybackEnabled, loopStartLine, loopEndLine>>

\* The engine's state
engine == <<isPracticing, currentLineIndex, status, utterances, recognitionRef,
            recognitionLine, orphans, abortedEnds, advanceTimers, stopTimers,
            micPending, mediaRecorder, finishedCount, loopedBack>>

\* The accuracy check's state
scoring == <<original, transcript, accuracyReport>>

\* The setup view's state
setup == <<script, parsedLines, characters, settings, localStorage, saved>>

-----------------------------------------------------------------------------
(* Bounds of the model *)

MaxLines == 3
\* Skip and Start are not pressed while this many callbacks are still pending.
MaxPending == 2
\* getUserMedia promises tracked at once; further ones coalesce.
MaxMic == 1
\* Recording is switched on for scripts of up to this many lines.
MaxRecordLines == 2
\* The loop scenario of the advance rule.
MaxLoopLines == 10
MaxTrace == 7
\* Length of the texts the accuracy check is run on.
MaxText == 3
MaxWords == 3
\* Size of the script texts that are parsed.
MaxScriptChars == 5
MaxScriptLines == 3
\* Lines of the scripts of the sessions that are saved and loaded.
MaxRoles == 2

Characters == {"A", "B"}
\* Where a pending advance timer comes from: the end of a request that ended
\* by itself, the end of an aborted request, or (history) an end by itself
\* whose turn Skip Line or Stop has left since.
Origins == {"natural", "aborted", "superseded"}

\* How a request ends by itself: with a result, or with an error event.
Outcomes == {"result", "no-speech"}

Min(a, b) == IF a < b THEN a ELSE b

-----------------------------------------------------------------------------
(* Settings as the code reads them *)

\* A string is truthy unless it is ''.
Truthy(s) == s # <<>>

parseInt(s) == s[1]

\* The inputs of type number the model types in: '', '0', '1', ...
LoopInputs(n) == {<<>>} \cup {<<k>> : k \in 0..(n + 1)}

IsUserLine(index) == lines[index + 1] = selectedCharacter

-----------------------------------------------------------------------------
(* The mutable state the handlers share, as one record *)

World ==
    [isPracticing |-> isPracticing, currentLineIndex |-> currentLineIndex,
     status |-> status, utterances |-> utterances,
     recognitionRef |-> recognitionRef, recognitionLine |-> recognitionLine,
     orphans |-> orphans, abortedEnds |-> abortedEnds,
     advanceTimers |-> advanceTimers, stopTimers |-> stopTimers,
     micPending |-> micPending, mediaRecorder |-> mediaRecorder,
     finishedCount |-> finishedCount, loopedBack |-> loopedBack]

\* v is the handler's result, evaluated once.
Commit(w) ==
    \E v \in {w} :
       /\ isPracticing' = v.isPracticing
       /\ currentLineIndex' = v.currentLineIndex
       /\ status' = v.status
       /\ utterances' = v.utterances
       /\ recognitionRef' = v.recognitionRef
       /\ recognitionLine' = v.recognitionLine
       /\ orphans' = v.orphans
       /\ abortedEnds' = v.abortedEnds
       /\ advanceTimers' = v.advanceTimers
       /\ stopTimers' = v.stopTimers
       /\ micPending' = v.micPending
       /\ mediaRecorder' = v.mediaRecorder
       /\ finishedCount' = v.finishedCount
       /\ loopedBack' = v.loopedBack
       /\ UNCHANGED <<config, trace, scoring, setup, phase>>

-----------------------------------------------------------------------------
(* advanceLine: the updater of setCurrentLineIndex *)

LoopStart == IF Truthy(loopStartLine) THEN parseInt(loopStartLine) - 1 ELSE -1

LoopEnd == IF Truthy(loopEndLine) THEN parseInt(loopEndLine) ELSE -1

\* Mutant: the loop-back test with > for >=.
LoopsBackLate(prev) == LoopStart >= 0 /\ LoopEnd > 0 /\ prev + 1 > LoopEnd

LoopsBack(prev) == LoopStart >= 0 /\ LoopEnd > 0 /\ prev + 1 >= LoopEnd

\* Mutant: the loop-back branch returns the loop end instead of the start.
AdvanceIndexToEnd(prev) == IF LoopsBack(prev) THEN LoopEnd - 1 ELSE prev + 1

\* Mutant: no loop-back branch.
AdvanceIndexNoLoop(prev) == prev + 1

AdvanceIndex(prev) == IF LoopsBack(prev) THEN LoopStart ELSE prev + 1

advanceLine(w) ==
    [w EXCEPT !.currentLineIndex = AdvanceIndex(@),
              !.loopedBack = @ \/ LoopsBack(w.currentLineIndex)]

\* handleStartPractice's startIdx
StartIndex ==
    IF Truthy(loopStartLine) /\ parseInt(loopStartLine) > 0
    THEN parseInt(loopStartLine) - 1
    ELSE 0

-----------------------------------------------------------------------------
(* stopAllSpeechAndRecognition *)

stopAllSpeechAndRecognition(w) ==
    [w EXCEPT
        \* abort() of a request in flight: its end event is now owed
        !.abortedEnds = IF w.recognitionRef = "listening" THEN @ + 1 ELSE @,
        !.recognitionRef = IF @ = "listening" THEN "ended" ELSE @,
        !.recognitionLine = 0,
        !.mediaRecorder = IF @ = "recording" THEN "inactive" ELSE @,
        \* speechSynthesis.cancel()
        !.utterances = <<>>]

-----------------------------------------------------------------------------
(* startRecognition and processLine *)

startRecognition(w, index) ==
    IF ~isSpeechSupported THEN w ELSE
    [w EXCEPT
        !.micPending = IF isRecordAndPlaybackEnabled THEN Min(@ + 1, MaxMic) ELSE @,
        \* recognitionRef.current is overwritten, whatever it held
        !.orphans = IF w.recognitionRef = "listening" THEN @ + 1 ELSE @,
        !.recognitionRef = "listening",
        !.recognitionLine = index]

\* Mutant: the read-along clause of the test is missing.
TurnSpeaksOthersOnly(index) == ~IsUserLine(index)

\* processLine's test for the synthesis branch
TurnSpeaks(index) == ~IsUserLine(index) \/ practiceMode = "read-along"

processLine(w, index) ==
    IF index >= Len(lines)
    THEN [w EXCEPT !.status = "Finished",
                   !.stopTimers = @ + 1,
                   !.finishedCount = @ + 1]
    ELSE IF TurnSpeaks(index)
         THEN [w EXCEPT !.status = "Speaking",
                        !.utterances = Append(@, index)]
         ELSE startRecognition([w EXCEPT !.status = "Listening"], index)

\* Mutant: onend advances whatever the turn.
UtteranceOnEndAdvances(w, index) == advanceLine(w)

\* utterance.onend of the utterance processLine(index) created
UtteranceOnEnd(w, index) ==
    IF IsUserLine(index) /\ practiceMode = "read-along"
    THEN startRecognition(w, index)
    ELSE advanceLine(w)

\* The isPracticing a recognition's onend closure reads: startRecognition only
\* runs in renders whose effect found isPracticing true.
ClosureIsPracticing(w) == TRUE

\* Mutant: onerror reports every error, 'aborted' too.
RecognitionOnErrorAlways(w, error) == [w EXCEPT !.status = "Sorry"]

\* recognition.onerror
RecognitionOnError(w, error) ==
    IF error # "aborted" THEN [w EXCEPT !.status = "Sorry"] ELSE w

\* recognition.onend
RecognitionOnEnd(w, origin) ==
    [w EXCEPT
        !.mediaRecorder = IF @ = "recording" THEN "inactive" ELSE @,
        !.advanceTimers[origin] = IF ClosureIsPracticing(w) THEN @ + 1 ELSE @]

-----------------------------------------------------------------------------
(* The effect on [isPracticing, currentLineIndex] *)

\* Mutant: the effect returns no cleanup.
EffectCleanupMissing(w) == w

EffectCleanup(w) == stopAllSpeechAndRecognition(w)

\* React re-renders after a handler; the effect runs when a dependency changed.
Rerender(old, new) ==
    IF old.isPracticing = new.isPracticing
       /\ old.currentLineIndex = new.currentLineIndex
    THEN new
    ELSE LET c == EffectCleanup(new)
         IN  IF c.isPracticing THEN processLine(c, c.currentLineIndex) ELSE c

handleStopPractice(w) ==
    [stopAllSpeechAndRecognition(w) EXCEPT !.isPracticing = FALSE, !.status = ""]

handleSkipLine(w) == advanceLine(stopAllSpeechAndRecognition(w))

handleStartPractice(w) ==
    IF Len(lines) > 0 /\ selectedCharacter # ""
    THEN [w EXCEPT !.isPracticing = TRUE,
                   !.currentLineIndex = StartIndex,
                   !.finishedCount = 0,
                   !.loopedBack = FALSE]
    ELSE w

-----------------------------------------------------------------------------
(* Initial states *)

InFlight == orphans + (IF recognitionRef = "listening" THEN 1 ELSE 0)

Pending ==
    InFlight + abortedEnds + advanceTimers["natural"] + advanceTimers["aborted"]
    + advanceTimers["superseded"] + stopTimers

Scripts(n) == {s \in [1..n -> Characters] : \E i \in 1..n : s[i] = "A"}

IdleState ==
    /\ isPracticing = FALSE
    /\ currentLineIndex = 0
    /\ status = ""
    /\ utterances = <<>>
    /\ recognitionRef = "null"
    /\ recognitionLine = 0
    /\ orphans = 0
    /\ abortedEnds = 0
    /\ advanceTimers = [o \in Origins |-> 0]
    /\ stopTimers = 0
    /\ micPending = 0
    /\ mediaRecorder = "null"
    /\ finishedCount = 0
    /\ loopedBack = FALSE

\* No accuracy check has run.
ScoringIdle ==
    /\ original = <<>>
    /\ transcript = <<>>
    /\ accuracyReport = <<>>

\* useState's initial values of the persisted state other than the script
DefaultSettings ==
    [selectedCharacter |-> <<>>, speechRate |-> 10, pitch |-> 10,
     volume |-> 10, selectedLang |-> "en-US", isAccuracyCheckEnabled |-> TRUE,
     practiceMode |-> "dialogue", isRecordAndPlaybackEnabled |-> TRUE,
     loopStartLine |-> <<>>, loopEndLine |-> <<>>]

NoItem == [stored |-> FALSE]

\* The setup view before anything was typed or stored.
SetupIdle ==
    /\ script = <<>>
    /\ parsedLines = <<>>
    /\ characters = <<>>
    /\ settings = DefaultSettings
    /\ localStorage = NoItem
    /\ saved = NoItem

\* The roles are interchangeable: the user plays "A", which has a line.
Engine ==
    /\ \E n \in 1..MaxLines :
          /\ lines \in Scripts(n)
          /\ loopStartLine \in LoopInputs(n)
          /\ loopEndLine \in LoopInputs(n)
          /\ isRecordAndPlaybackEnabled \in
                 IF n <= MaxRecordLines THEN BOOLEAN ELSE {FALSE}
    /\ selectedCharacter = "A"
    /\ practiceMode \in {"dialogue", "read-along"}
    /\ IdleState
    /\ trace = <<>>
    /\ ScoringIdle
    /\ SetupIdle
    /\ phase = "engine"

\* The browser the engine's claims are about has speech recognition.
Init == Engine /\ isSpeechSupported = TRUE

-----------------------------------------------------------------------------
(* Actions *)

\* The practice view shows its buttons only when lines[currentLineIndex] exists.
ControlsShown == isPracticing /\ currentLineIndex < Len(lines)

Start ==
    /\ ~isPracticing
    /\ Pending < MaxPending
    /\ Commit(Rerender(World, handleStartPractice(World)))

Stop ==
    /\ ControlsShown
    /\ Commit(Rerender(World, handleStopPractice(World)))

Skip ==
    /\ ControlsShown
    /\ Pending < MaxPending
    /\ Commit(Rerender(World, handleSkipLine(World)))

\* The utterance being spoken finishes.
SynthEnd ==
    /\ utterances # <<>>
    /\ LET w == [World EXCEPT !.utterances = Tail(@)]
       IN  Commit(Rerender(World, UtteranceOnEnd(w, Head(utterances))))

\* A request in flight ends by itself: after a result, or after an error
\* event, which onerror handles before onend runs.
RecognitionEnds(outcome) ==
    \E orphan \in {b \in BOOLEAN : IF b THEN orphans > 0
                                        ELSE recognitionRef = "listening"} :
        LET w == IF orphan THEN [World EXCEPT !.orphans = @ - 1]
                           ELSE [World EXCEPT !.recognitionRef = "ended",
                                              !.recognitionLine = 0]
            e == IF outcome = "result" THEN w ELSE RecognitionOnError(w, outcome)
        IN  Commit(Rerender(World, RecognitionOnEnd(e, "natural")))

RecognitionEnd == \E outcome \in Outcomes : RecognitionEnds(outcome)

\* The end event of an aborted request arrives.
AbortedEnd ==
    /\ abortedEnds > 0
    /\ LET w == RecognitionOnError([World EXCEPT !.abortedEnds = @ - 1], "aborted")
       IN  Commit(Rerender(World, RecognitionOnEnd(w, "aborted")))

TimerAdvance ==
    \E o \in {x \in Origins : advanceTimers[x] > 0} :
        LET w == [World EXCEPT !.advanceTimers[o] = @ - 1]
        IN  Commit(Rerender(World, advanceLine(w)))

TimerStop ==
    /\ stopTimers > 0
    /\ LET w == [World EXCEPT !.stopTimers = @ - 1]
       IN  Commit(Rerender(World, handleStopPractice(w)))

\* getUserMedia resolves: a new MediaRecorder is stored and started.
MicGranted ==
    /\ micPending > 0
    /\ Commit([World EXCEPT !.micPending = @ - 1, !.mediaRecorder = "recording"])

\* Mutant: the rejection handler gives the turn up.
GetUserMediaRejectedAborts(w) ==
    [stopAllSpeechAndRecognition(w) EXCEPT !.micPending = @ - 1]

\* The catch handler of getUserMedia: console.error only
GetUserMediaRejected(w) == [w EXCEPT !.micPending = @ - 1]

\* getUserMedia rejects: access denied, or no microphone.
MicDenied ==
    /\ micPending > 0
    /\ Commit(GetUserMediaRejected(World))

Next ==
    \/ Start
    \/ Stop
    \/ Skip
    \/ SynthEnd
    \/ RecognitionEnd
    \/ AbortedEnd
    \/ TimerAdvance
    \/ TimerStop
    \/ MicGranted
    \/ MicDenied

Spec == Init /\ [][Next]_vars

\* History: the advance timers of ends by themselves that are pending when
\* Skip Line is pressed belong to a turn the skip leaves.
Supersede(w) ==
    [w EXCEPT !.advanceTimers =
        [o \in Origins |->
            CASE o = "natural" -> 0
              [] o = "superseded" -> w.advanceTimers["superseded"]
                                     + w.advanceTimers["natural"]
              [] OTHER -> w.advanceTimers[o]]]

\* Skip, with that history kept
SkipSuperseding ==
    /\ ControlsShown
    /\ Pending < MaxPending
    /\ Commit(Rerender(World, handleSkipLine(Supersede(World))))

NextSuperseding ==
    \/ Start
    \/ Stop
    \/ SkipSuperseding
    \/ SynthEnd
    \/ RecognitionEnd
    \/ AbortedEnd
    \/ TimerAdvance
    \/ TimerStop
    \/ MicGranted
    \/ MicDenied

\* The engine with the history of the timers a skip leaves behind.
SpecSuperseding == Init /\ [][NextSuperseding]_vars

\* Stop, with the history of the advance timers the stopped session leaves
StopSuperseding ==
    /\ ControlsShown
    /\ Commit(Rerender(World, handleStopPractice(Supersede(World))))

NextSessions ==
    \/ Start
    \/ StopSuperseding
    \/ Skip
    \/ SynthEnd
    \/ RecognitionEnd
    \/ AbortedEnd
    \/ TimerAdvance
    \/ TimerStop
    \/ MicGranted
    \/ MicDenied

\* The engine with the history of the timers a stopped session leaves behind.
SpecSessions == Init /\ [][NextSessions]_vars

\* The engine in any browser, with or without speech recognition.
\* (speechSynthesis is taken to be present: without it the first cleanup of
\* the effect throws on window.speechSynthesis.cancel().)
InitEnv == Engine /\ isSpeechSupported \in BOOLEAN

SpecEnv == InitEnv /\ [][Next]_vars

-----------------------------------------------------------------------------
(* The advance rule on its own: advanceLine applied again and again to a    *)
(* cursor, for every script length and every pair of loop inputs.           *)

InitAdvance ==
    /\ \E n \in 1..MaxLoopLines :
          /\ lines = [i \in 1..n |-> "A"]
          /\ loopStartLine \in LoopInputs(n)
          /\ loopEndLine \in LoopInputs(n)
          /\ currentLineIndex \in 0..(n - 1)
    /\ isSpeechSupported = TRUE
    /\ selectedCharacter = "A"
    /\ practiceMode = "dialogue"
    /\ isRecordAndPlaybackEnabled = FALSE
    /\ isPracticing = FALSE
    /\ status = ""
    /\ utterances = <<>>
    /\ recognitionRef = "null"
    /\ recognitionLine = 0
    /\ orphans = 0
    /\ abortedEnds = 0
    /\ advanceTimers = [o \in Origins |-> 0]
    /\ stopTimers = 0
    /\ micPending = 0
    /\ mediaRecorder = "null"
    /\ finishedCount = 0
    /\ loopedBack = FALSE
    /\ trace = <<currentLineIndex>>
    /\ ScoringIdle
    /\ SetupIdle
    /\ phase = "engine"

ApplyAdvance ==
    /\ Len(trace) < MaxTrace
    /\ currentLineIndex' = advanceLine(World).currentLineIndex
    /\ trace' = Append(trace, currentLineIndex')
    /\ UNCHANGED <<config, isPracticing, status, utterances, recognitionRef,
                   recognitionLine, orphans, abortedEnds, advanceTimers,
                   stopTimers, micPending, mediaRecorder, finishedCount,
                   loopedBack, scoring, setup, phase>>

NextAdvance == ApplyAdvance

SpecAdvance == InitAdvance /\ [][NextAdvance]_vars

-----------------------------------------------------------------------------
(* Texts: a string is the sequence of its characters                        *)

Whitespace == {" ", "\n", "\t"}

UpperLetters ==
    <<"A", "B", "C", "D", "E", "F", "G", "H", "I", "J", "K", "L", "M",
      "N", "O", "P", "Q", "R", "S", "T", "U", "V", "W", "X", "Y", "Z">>

LowerLetters ==
    <<"a", "b", "c", "d", "e", "f", "g", "h", "i", "j", "k", "l", "m",
      "n", "o", "p", "q", "r", "s", "t", "u", "v", "w", "x", "y", "z">>

Digits == {"0", "1", "2", "3", "4", "5", "6", "7", "8", "9"}

Range(f) == {f[i] : i \in DOMAIN f}

\* The class \w of a regular expression
WordChars == Range(UpperLetters) \cup Range(LowerLetters) \cup Digits \cup {"_"}

LetterIndex(letters, c) == CHOOSE i \in DOMAIN letters : letters[i] = c

toLowerCase(s) ==
    [i \in DOMAIN s |->
        IF s[i] \in Range(UpperLetters)
        THEN LowerLetters[LetterIndex(UpperLetters, s[i])]
        ELSE s[i]]

toUpperCase(s) ==
    [i \in DOMAIN s |->
        IF s[i] \in Range(LowerLetters)
        THEN UpperLetters[LetterIndex(LowerLetters, s[i])]
        ELSE s[i]]

\* Index of the first character of s that is in set, Len(s) + 1 if none
FirstIn(s, set) ==
    IF \E i \in DOMAIN s : s[i] \in set
    THEN CHOOSE i \in DOMAIN s : s[i] \in set /\ \A j \in 1..(i - 1) : s[j] \notin set
    ELSE Len(s) + 1

RECURSIVE trimStart(_)
trimStart(s) ==
    IF s # <<>> /\ Head(s) \in Whitespace THEN trimStart(Tail(s)) ELSE s

RECURSIVE trimEnd(_)
trimEnd(s) ==
    IF s # <<>> /\ s[Len(s)] \in Whitespace
    THEN trimEnd(SubSeq(s, 1, Len(s) - 1))
    ELSE s

trim(s) == trimEnd(trimStart(s))

includes(s, c) == \E i \in DOMAIN s : s[i] = c

\* s.split(c) for a one-character separator
RECURSIVE split(_, _)
split(s, c) ==
    IF ~includes(s, c)
    THEN <<s>>
    ELSE LET k == FirstIn(s, {c})
         IN  <<SubSeq(s, 1, k - 1)>> \o split(SubSeq(s, k + 1, Len(s)), c)

\* parts.join(c)
RECURSIVE join(_, _)
join(parts, c) ==
    IF parts = <<>> THEN <<>>
    ELSE IF Len(parts) = 1 THEN parts[1]
    ELSE parts[1] \o <<c>> \o join(Tail(parts), c)

\* s.split(/\s+/)
RECURSIVE splitWhitespace(_)
splitWhitespace(s) ==
    LET k == FirstIn(s, Whitespace)
    IN  IF k > Len(s)
        THEN <<s>>
        ELSE <<SubSeq(s, 1, k - 1)>>
             \o splitWhitespace(trimStart(SubSeq(s, k, Len(s))))

\* parts.filter(Boolean): the empty string is falsy
NonEmpty(part) == part # <<>>

filterBoolean(parts) == SelectSeq(parts, NonEmpty)

-----------------------------------------------------------------------------
(* calculateAccuracy                                                        *)

KeepsWordOrSpace(c) == c \in WordChars \cup Whitespace

\* s.replace(/[^\w\s]/g, '')
stripPunctuation(s) == SelectSeq(s, KeepsWordOrSpace)

NormalizedWords(text) ==
    filterBoolean(splitWhitespace(stripPunctuation(toLowerCase(text))))

\* Mutant: a word that fails to match moves the transcript cursor on as well.
RECURSIVE ScoreLoopResyncs(_, _, _, _)
ScoreLoopResyncs(originalWords, transcriptWords, i, tIdx) ==
    IF i > Len(originalWords)
    THEN <<>>
    ELSE IF tIdx < Len(transcriptWords)
            /\ originalWords[i] = transcriptWords[tIdx + 1]
         THEN <<[word |-> originalWords[i], status |-> "correct"]>>
              \o ScoreLoopResyncs(originalWords, transcriptWords, i + 1, tIdx + 1)
         ELSE <<[word |-> originalWords[i], status |-> "incorrect"]>>
              \o ScoreLoopResyncs(originalWords, transcriptWords, i + 1, tIdx + 1)

\* Mutant: once the transcript is used up the entries keep their initial status.
RECURSIVE ScoreLoopLeavesMissing(_, _, _, _)
ScoreLoopLeavesMissing(originalWords, transcriptWords, i, tIdx) ==
    IF i > Len(originalWords)
    THEN <<>>
    ELSE IF tIdx >= Len(transcriptWords)
         THEN <<[word |-> originalWords[i], status |-> "missing"]>>
              \o ScoreLoopLeavesMissing(originalWords, transcriptWords, i + 1, tIdx)
         ELSE IF originalWords[i] = transcriptWords[tIdx + 1]
              THEN <<[word |-> originalWords[i], status |-> "correct"]>>
                   \o ScoreLoopLeavesMissing(originalWords, transcriptWords,
                                             i + 1, tIdx + 1)
              ELSE <<[word |-> originalWords[i], status |-> "incorrect"]>>
                   \o ScoreLoopLeavesMissing(originalWords, transcriptWords,
                                             i + 1, tIdx)

\* Mutant: a word is compared with the transcript word at its own position.
RECURSIVE ScoreLoopPositional(_, _, _, _)
ScoreLoopPositional(originalWords, transcriptWords, i, tIdx) ==
    IF i > Len(originalWords)
    THEN <<>>
    ELSE IF i <= Len(transcriptWords)
            /\ originalWords[i] = transcriptWords[i]
         THEN <<[word |-> originalWords[i], status |-> "correct"]>>
              \o ScoreLoopPositional(originalWords, transcriptWords, i + 1, tIdx)
         ELSE <<[word |-> originalWords[i], status |-> "incorrect"]>>
              \o ScoreLoopPositional(originalWords, transcriptWords, i + 1, tIdx)

\* The for loop, from entry i (1-based) with the transcript cursor at tIdx
RECURSIVE ScoreLoop(_, _, _, _)
ScoreLoop(originalWords, transcriptWords, i, tIdx) ==
    IF i > Len(originalWords)
    THEN <<>>
    ELSE IF tIdx < Len(transcriptWords)
            /\ originalWords[i] = transcriptWords[tIdx + 1]
         THEN <<[word |-> originalWords[i], status |-> "correct"]>>
              \o ScoreLoop(originalWords, transcriptWords, i + 1, tIdx + 1)
         ELSE <<[word |-> originalWords[i], status |-> "incorrect"]>>
              \o ScoreLoop(originalWords, transcriptWords, i + 1, tIdx)

calculateAccuracy(o, t) ==
    ScoreLoop(NormalizedWords(o), NormalizedWords(t), 1, 0)

\* The texts the accuracy check is run on: every text of up to MaxText
\* characters of ScoreChars, every phrase of up to MaxWords tokens of
\* ScoreTokens, and the pair of the worked example.
ScoreChars == {"a", "B", " ", ","}

ScoreTokens == {<<"a">>, <<"B">>, <<"c", ",">>, <<"!">>}

TextsOver(chars, n) == UNION {[1..k -> chars] : k \in 0..n}

Phrases(tokens, n) == {join(p, " ") : p \in TextsOver(tokens, n)}

ToBeOrNotToBe ==
    <<"T", "o", " ", "b", "e", " ", "o", "r", " ", "n", "o", "t", " ",
      "t", "o", " ", "b", "e">>

ToBeOrNotTooBe ==
    <<"t", "o", " ", "b", "e", " ", "o", "r", " ", "n", "o", "t", " ",
      "t", "o", "o", " ", "b", "e">>

InitScore ==
    /\ \/ /\ original \in TextsOver(ScoreChars, MaxText)
          /\ transcript \in TextsOver(ScoreChars, MaxText)
       \/ /\ original \in Phrases(ScoreTokens, MaxWords)
          /\ transcript \in Phrases(ScoreTokens, MaxWords)
       \/ /\ original = ToBeOrNotToBe
          /\ transcript = ToBeOrNotTooBe
    /\ accuracyReport = <<>>
    /\ phase = "listening"
    /\ isSpeechSupported = TRUE
    /\ lines = <<"A">>
    /\ selectedCharacter = "A"
    /\ practiceMode = "dialogue"
    /\ isRecordAndPlaybackEnabled = FALSE
    /\ loopStartLine = <<>>
    /\ loopEndLine = <<>>
    /\ IdleState
    /\ trace = <<>>
    /\ SetupIdle

\* recognition.onresult with the accuracy check enabled
OnResult ==
    /\ phase = "listening"
    /\ accuracyReport' = calculateAccuracy(original, transcript)
    /\ phase' = "scored"
    /\ UNCHANGED <<config, engine, trace, original, transcript, setup>>

NextScore == OnResult

SpecScore == InitScore /\ [][NextScore]_vars

-----------------------------------------------------------------------------
(* The script parsing effect                                                *)

\* The class [A-Z0-9\s_'-] of lineRegex
NameChars ==
    Range(UpperLetters) \cup Digits \cup Whitespace \cup {"_", "'", "-"}

\* line.match(lineRegex) is not null.  The class has no colon, so group 1 is
\* what stands before the first colon: one or more characters of the class;
\* the rest of the pattern matches any rest of a line.
lineRegexMatches(line) ==
    LET k == FirstIn(line, {":"})
    IN  /\ 1 < k
        /\ k <= Len(line)
        /\ \A i \in 1..(k - 1) : line[i] \in NameChars

\* The groups of the match: after the colon \s* takes the blanks, the optional
\* group takes "(" up to the first ")" and the blanks behind it if the rest
\* starts with "(" and has a ")", and group 3 takes what is left.
lineRegexGroups(line) ==
    LET k == FirstIn(line, {":"})
        rest == trimStart(SubSeq(line, k + 1, Len(line)))
        hasDirection ==
            rest # <<>> /\ Head(rest) = "(" /\ includes(rest, ")")
        close == FirstIn(rest, {")"})
    IN  [name |-> SubSeq(line, 1, k - 1),
         direction |-> IF hasDirection THEN SubSeq(rest, 2, close - 1) ELSE <<>>,
         dialogue |-> IF hasDirection
                      THEN trimStart(SubSeq(rest, close + 1, Len(rest)))
                      ELSE rest]

\* The callback of the second map: one entry from a line that has a colon
ParseLine(line) ==
    IF lineRegexMatches(line)
    THEN LET match == lineRegexGroups(line)
         IN  [character |-> toUpperCase(trim(match.name)),
              direction |-> trim(match.direction),
              dialogue |-> trim(match.dialogue)]
    ELSE LET parts == split(line, ":")
         IN  [character |-> toUpperCase(trim(Head(parts))),
              dialogue |-> trim(join(Tail(parts), ":")),
              direction |-> <<>>]

HasColon(line) == includes(line, ":")

\* Mutant: only the lines lineRegex matches are kept.
KeptLinesMatching(trimmed) == SelectSeq(trimmed, lineRegexMatches)

\* filter(line => line.includes(':'))
KeptLines(trimmed) == SelectSeq(trimmed, HasColon)

\* parsedLines of the effect (the last filter(Boolean) keeps every entry: an
\* object is truthy)
parseScript(text) ==
    LET raw == split(text, "\n")
        trimmed == [i \in DOMAIN raw |-> trim(raw[i])]
        kept == KeptLines(trimmed)
    IN  [i \in DOMAIN kept |-> ParseLine(kept[i])]

\* Mutant: a character takes the place of its last appearance.
RECURSIVE uniqueByLast(_)
uniqueByLast(seq) ==
    IF seq = <<>>
    THEN <<>>
    ELSE IF Head(seq) \in Range(Tail(seq))
         THEN uniqueByLast(Tail(seq))
         ELSE <<Head(seq)>> \o uniqueByLast(Tail(seq))

\* Array.from(new Set(seq)): a Set keeps the order of insertion
RECURSIVE unique(_)
unique(seq) ==
    IF seq = <<>>
    THEN <<>>
    ELSE LET front == unique(SubSeq(seq, 1, Len(seq) - 1))
             last == seq[Len(seq)]
         IN  IF last \in Range(front) THEN front ELSE Append(front, last)

uniqueCharacters(entries) ==
    unique([i \in DOMAIN entries |-> entries[i].character])

\* The selectedCharacter the effect leaves: `selected` is the one of the
\* render the effect belongs to, `queued` the one the updates queued before
\* the effect give.
ParseSelects(roster, selected, queued) ==
    IF Len(roster) > 0 /\ selected \notin Range(roster)
    THEN roster[1]
    ELSE IF Len(roster) = 0 THEN <<>> ELSE queued

\* The script texts that are parsed: every text of up to MaxScriptChars
\* characters of ParseChars, and every script of up to MaxScriptLines lines
\* of SampleLines.
ParseChars == {"A", "b", ":", " ", "\n"}

SampleLines ==
    { <<"A", ":", " ", "x">>,
      <<"b", ":", "(", "d", ")", " ", "y">>,
      <<"n", "o">>,
      <<>>,
      <<" ", "A", " ", ":", "x", ":", "y">>,
      <<"B", "1", ":", "(", "d", ")", "y">> }

ScriptsOf(sampleLines, n) ==
    {join(p, "\n") : p \in TextsOver(sampleLines, n)}

InitParse ==
    /\ script \in TextsOver(ParseChars, MaxScriptChars)
                  \cup ScriptsOf(SampleLines, MaxScriptLines)
    /\ parsedLines = <<>>
    /\ characters = <<>>
    /\ settings = DefaultSettings
    /\ localStorage = NoItem
    /\ saved = NoItem
    /\ phase = "typed"
    /\ isSpeechSupported = TRUE
    /\ lines = <<"A">>
    /\ selectedCharacter = "A"
    /\ practiceMode = "dialogue"
    /\ isRecordAndPlaybackEnabled = FALSE
    /\ loopStartLine = <<>>
    /\ loopEndLine = <<>>
    /\ IdleState
    /\ trace = <<>>
    /\ ScoringIdle

\* The effect on [script], after the script was typed or loaded
ParseEffect ==
    /\ phase = "typed"
    /\ parsedLines' = parseScript(script)
    /\ characters' = uniqueCharacters(parsedLines')
    /\ settings' = [settings EXCEPT
                      !.selectedCharacter = ParseSelects(characters', @, @)]
    /\ phase' = "parsed"
    /\ UNCHANGED <<config, engine, trace, scoring, script, localStorage, saved>>

NextParse == ParseEffect

SpecParse == InitParse /\ [][NextParse]_vars

-----------------------------------------------------------------------------
(* Saving and loading the settings                                          *)
(*                                                                          *)
(* Rate, pitch and volume are counted in tenths (the sliders' step is 0.1). *)
(* The pronunciations and the voices of the characters are left out.        *)

\* The values of the sliders: minimum, a value in between, maximum
RateValues == {5, 10, 20}
PitchValues == {0, 10, 20}
VolumeValues == {0, 5, 10}

Languages == {"en-US", "fr-FR"}

\* JSON.stringify and JSON.parse of a value: a number is written as its
\* numeral, a boolean as true or false, a string between quotes.
JSONnumber(n) == <<"numeral", n>>
JSONboolean(b) == IF b THEN <<"true">> ELSE <<"false">>
JSONstring(s) == <<"quoted", s>>

ParseNumber(j) == j[2]
ParseBoolean(j) == j = <<"true">>
ParseString(j) == j[2]

\* JSON.stringify(settings) of the save effect
JSONstringify(text, s) ==
    [script |-> JSONstring(text),
     selectedCharacter |-> JSONstring(s.selectedCharacter),
     speechRate |-> JSONnumber(s.speechRate),
     pitch |-> JSONnumber(s.pitch),
     volume |-> JSONnumber(s.volume),
     selectedLang |-> JSONstring(s.selectedLang),
     isAccuracyCheckEnabled |-> JSONboolean(s.isAccuracyCheckEnabled),
     practiceMode |-> JSONstring(s.practiceMode),
     isRecordAndPlaybackEnabled |-> JSONboolean(s.isRecordAndPlaybackEnabled),
     loopStartLine |-> JSONstring(s.loopStartLine),
     loopEndLine |-> JSONstring(s.loopEndLine)]

\* The save effect: localStorage.setItem
SaveEffect(text, s) == [stored |-> TRUE, item |-> JSONstringify(text, s)]

\* value || fallback, for a number, a text and a name
NumberOr(n, fallback) == IF n = 0 THEN fallback ELSE n
TextOr(s, fallback) == IF s = <<>> THEN fallback ELSE s
NameOr(s, fallback) == IF s = "" THEN fallback ELSE s

\* value ?? fallback: the saved item always has the key
Nullish(b, fallback) == b

\* The values the load effect passes to the setters
LoadedScript(item) == TextOr(ParseString(item.script), <<>>)

LoadedSettings(item) ==
    [selectedCharacter |-> TextOr(ParseString(item.selectedCharacter), <<>>),
     speechRate |-> NumberOr(ParseNumber(item.speechRate), 10),
     pitch |-> NumberOr(ParseNumber(item.pitch), 10),
     volume |-> NumberOr(ParseNumber(item.volume), 10),
     selectedLang |-> NameOr(ParseString(item.selectedLang), "en-US"),
     isAccuracyCheckEnabled |->
         Nullish(ParseBoolean(item.isAccuracyCheckEnabled), TRUE),
     practiceMode |-> NameOr(ParseString(item.practiceMode), "dialogue"),
     isRecordAndPlaybackEnabled |->
         Nullish(ParseBoolean(item.isRecordAndPlaybackEnabled), TRUE),
     loopStartLine |-> TextOr(ParseString(item.loopStartLine), <<>>),
     loopEndLine |-> TextOr(ParseString(item.loopEndLine), <<>>)]

\* The scripts of the sessions that are saved: up to MaxRoles lines
RoleLines == { <<"A", ":", "x">>, <<"B", ":", "y">> }

\* A session at rest in the setup view: the script is parsed, a character of
\* the roster is chosen, the sliders, switches and inputs are set, and the
\* save effect has stored all of it.
InitSettings ==
    /\ script \in ScriptsOf(RoleLines, MaxRoles)
    /\ parsedLines = parseScript(script)
    /\ characters = uniqueCharacters(parsedLines)
    /\ settings \in
         [selectedCharacter : IF characters = <<>> THEN {<<>>} ELSE Range(characters),
          speechRate : RateValues,
          pitch : PitchValues,
          volume : VolumeValues,
          selectedLang : Languages,
          isAccuracyCheckEnabled : BOOLEAN,
          practiceMode : {"dialogue", "read-along"},
          isRecordAndPlaybackEnabled : BOOLEAN,
          loopStartLine : {<<>>, <<1>>},
          loopEndLine : {<<>>, <<2>>}]
    /\ localStorage = SaveEffect(script, settings)
    /\ saved = NoItem
    /\ phase = "running"
    /\ isSpeechSupported = TRUE
    /\ lines = <<"A">>
    /\ selectedCharacter = "A"
    /\ practiceMode = "dialogue"
    /\ isRecordAndPlaybackEnabled = FALSE
    /\ loopStartLine = <<>>
    /\ loopEndLine = <<>>
    /\ IdleState
    /\ trace = <<>>
    /\ ScoringIdle

\* The page is closed and opened again: the first render has the initial
\* state of useState.
Reload ==
    /\ phase = "running"
    /\ saved' = [stored |-> TRUE, script |-> script, settings |-> settings]
    /\ script' = <<>>
    /\ parsedLines' = <<>>
    /\ characters' = <<>>
    /\ settings' = DefaultSettings
    /\ phase' = "render1"
    /\ UNCHANGED <<config, engine, trace, scoring, localStorage>>

\* The effects of the first render, in the order of their declaration: the
\* load effect queues the stored values, the save effect stores the state of
\* this render, the parse effect parses the script of this render.  The
\* updates are applied in the order they were queued.
MountEffects ==
    /\ phase = "render1"
    /\ LET loads == localStorage.stored
           loadedScript == IF loads THEN LoadedScript(localStorage.item) ELSE script
           loadedSettings == IF loads THEN LoadedSettings(localStorage.item)
                                      ELSE settings
           entries == parseScript(script)
           roster == uniqueCharacters(entries)
       IN  /\ localStorage' = SaveEffect(script, settings)
           /\ script' = loadedScript
           /\ parsedLines' = entries
           /\ characters' = roster
           /\ settings' =
                 [loadedSettings EXCEPT
                     !.selectedCharacter =
                         ParseSelects(roster, settings.selectedCharacter, @)]
    /\ phase' = "render2"
    /\ UNCHANGED <<config, engine, trace, scoring, saved>>

\* The effects of the render with the loaded state: the save effect stores it
\* (as it is, if nothing was loaded), and the parse effect runs if the script
\* is no longer the '' of the first render.
LoadedEffects ==
    /\ phase = "render2"
    /\ localStorage' = SaveEffect(script, settings)
    /\ IF script # <<>>
       THEN /\ parsedLines' = parseScript(script)
            /\ characters' = uniqueCharacters(parsedLines')
            /\ settings' =
                  [settings EXCEPT
                      !.selectedCharacter = ParseSelects(characters', @, @)]
       ELSE UNCHANGED <<parsedLines, characters, settings>>
    /\ phase' = "render3"
    /\ UNCHANGED <<config, engine, trace, scoring, script, saved>>

\* The effects of the render the parse effect caused: the save effect.
ParsedEffects ==
    /\ phase = "render3"
    /\ localStorage' = SaveEffect(script, settings)
    /\ phase' = "running"
    /\ UNCHANGED <<config, engine, trace, scoring, script, parsedLines,
                   characters, settings, saved>>

NextSettings ==
    \/ Reload
    \/ MountEffects
    \/ LoadedEffects
    \/ ParsedEffects

SpecSettings == InitSettings /\ [][NextSettings]_vars

-----------------------------------------------------------------------------
(* Loop ranges as the specification classifies them (1-based inputs) *)

NoLoop == ~Truthy(loopStartLine) /\ ~Truthy(loopEndLine)

ValidLoop ==
    /\ Truthy(loopStartLine)
    /\ Truthy(loopEndLine)
    /\ 1 <= parseInt(loopStartLine)
    /\ parseInt(loopStartLine) < parseInt(loopEndLine)
    /\ parseInt(loopEndLine) <= Len(lines)

BadBound(s) == Truthy(s) /\ (parseInt(s) <= 0 \/ parseInt(s) > Len(lines))

InvalidLoop ==
    \/ BadBound(loopStartLine)
    \/ BadBound(loopEndLine)
    \/ /\ Truthy(loopStartLine)
       /\ Truthy(loopEndLine)
       /\ parseInt(loopStartLine) >= parseInt(loopEndLine)

-----------------------------------------------------------------------------
(* Claims *)

\* C1: the end event of a recognition request that skip() or stop() cancelled
\* does not advance the cursor: the delayed advance such an event schedules
\* never moves currentLineIndex of a running session.
C1_CancelledEndDoesNotAdvance ==
    [][(isPracticing /\ advanceTimers'["aborted"] < advanceTimers["aborted"])
         => currentLineIndex' = currentLineIndex]_vars

\* C2: at most one external request is outstanding: utterances queued or
\* spoken plus recognition requests in flight never exceed one.
C2_OneOutstandingRequest == Len(utterances) + InFlight <= 1

\* C2 witness: a new request is in flight while a cancelled one still owes its
\* end event, after a skip or a timer replaced the turn.
C2_Witness ==
    /\ isPracticing
    /\ recognitionRef = "listening"
    /\ abortedEnds > 0
    /\ currentLineIndex > StartIndex

\* C3: with no loop range the 'Script finished!' branch is taken exactly once
\* in a session, and from then on no utterance and no recognition request is
\* outstanding.
C3_FinishedOnce ==
    NoLoop =>
        /\ finishedCount <= 1
        /\ (isPracticing /\ finishedCount >= 1) =>
               (utterances = <<>> /\ InFlight = 0)

\* C4: with 10 lines and loop inputs 3 and 6, advancing repeatedly from cursor
\* 5 yields 5, 2, 3, 4, 5, 2, ...
C4_Expected(i) == IF i = 1 THEN 5 ELSE 2 + ((i - 2) % 4)

C4_Scenario ==
    /\ Len(lines) = 10
    /\ loopStartLine = <<3>>
    /\ loopEndLine = <<6>>
    /\ trace # <<>>
    /\ trace[1] = 5

C4_LoopSequence ==
    C4_Scenario => \A i \in 1..Len(trace) : trace[i] = C4_Expected(i)

\* C4 witness: the scenario after the cursor has gone round the loop once.
C4_Witness == C4_Scenario /\ Len(trace) >= 6

C6_InvalidLoopIgnored ==
    [][InvalidLoop =>
          /\ (~isPracticing /\ isPracticing') => currentLineIndex' = 0
          /\ (isPracticing /\ isPracticing' /\ currentLineIndex' # currentLineIndex)
                 => currentLineIndex' = currentLineIndex + 1
          /\ ~loopedBack']_vars

-----------------------------------------------------------------------------
(* The engine with the scheduling the browser gives: every request the      *)
(* providers accepted completes, every event and timer is delivered.  The   *)
(* user's clicks (Start, Stop, Skip) are under no obligation.               *)

Fairness ==
    /\ WF_vars(SynthEnd)
    /\ WF_vars(RecognitionEnd)
    /\ WF_vars(AbortedEnd)
    /\ WF_vars(TimerAdvance)
    /\ WF_vars(TimerStop)
    /\ WF_vars(MicGranted \/ MicDenied)

\* The settings under which the loop is well-formed, or off (in a script of
\* one line, which is enough for a session to finish by itself).
FairInit == Init /\ (ValidLoop \/ (NoLoop /\ Len(lines) = 1))

FairSpec == FairInit /\ [][Next]_vars /\ Fairness

RequestOutstanding == utterances # <<>> \/ InFlight > 0

\* C7: with a valid loop range a running session never takes the 'Script
\* finished!' branch, its cursor is at the loop start and at the loop's last
\* line again and again, and a session left with no request outstanding gets
\* a new one, unless the session is stopped.
C7_LoopsForever ==
    /\ [](ValidLoop => (finishedCount = 0 /\ status # "Finished"))
    /\ []<>(ValidLoop =>
               (~isPracticing \/ currentLineIndex = parseInt(loopStartLine) - 1))
    /\ []<>(ValidLoop =>
               (~isPracticing \/ currentLineIndex = parseInt(loopEndLine) - 1))
    /\ ((ValidLoop /\ isPracticing /\ ~RequestOutstanding)
           ~> (~isPracticing \/ RequestOutstanding))

\* C7 witness: a running session back at the loop start after a loop-back,
\* with the next request issued.
C7_Witness ==
    /\ ValidLoop
    /\ isPracticing
    /\ loopedBack
    /\ currentLineIndex = parseInt(loopStartLine) - 1
    /\ RequestOutstanding

\* C8: the recorder captures only while the recognition request of the turn
\* is in flight.
C8_RecorderOnlyWhileListening ==
    mediaRecorder = "recording" => recognitionRef = "listening"

\* C9: when a turn is entered (session start or cursor change onto a line),
\* an utterance for that line is requested iff the line is not the user's or
\* the mode is read-along; otherwise exactly a recognition request for that
\* line is issued and no utterance.
C9_TurnEntered ==
    /\ isPracticing'
    /\ currentLineIndex' < Len(lines)
    /\ (~isPracticing \/ currentLineIndex' # currentLineIndex)

C9_TurnResolution ==
    [][C9_TurnEntered =>
          IF lines[currentLineIndex' + 1] # selectedCharacter
             \/ practiceMode = "read-along"
          THEN /\ utterances' = <<currentLineIndex'>>
               /\ InFlight' = 0
          ELSE /\ utterances' = <<>>
               /\ recognitionRef' = "listening"
               /\ recognitionLine' = currentLineIndex'
               /\ orphans' = 0]_vars

\* C9 witness: dialogue mode, cursor moved onto a user's line, listening
\* requested directly.
C9_Witness ==
    /\ isPracticing
    /\ NoLoop
    /\ practiceMode = "dialogue"
    /\ currentLineIndex > 0
    /\ currentLineIndex < Len(lines)
    /\ lines[currentLineIndex + 1] = selectedCharacter
    /\ status = "Listening"
    /\ recognitionRef = "listening"
    /\ utterances = <<>>

\* C10: the end of an utterance of a user's line in read-along mode leaves
\* the cursor and issues one recognition request for that line; the end of
\* any other utterance applies the advance rule and requests no recognition
\* for the line that was spoken; the natural end of a recognition request
\* leaves the cursor and schedules one delayed advance.
C10_ReadAlongListens ==
    /\ [][SynthEnd =>
            IF lines[Head(utterances) + 1] = selectedCharacter
               /\ practiceMode = "read-along"
            THEN /\ currentLineIndex' = currentLineIndex
                 /\ utterances' = <<>>
                 /\ recognitionRef' = "listening"
                 /\ recognitionLine' = Head(utterances)
                 /\ InFlight' = InFlight + 1
            ELSE /\ currentLineIndex' = AdvanceIndex(currentLineIndex)
                 /\ recognitionRef' = "listening" =>
                        /\ currentLineIndex' # currentLineIndex
                        /\ recognitionLine' = currentLineIndex']_vars
    /\ [][RecognitionEnd =>
            /\ currentLineIndex' = currentLineIndex
            /\ advanceTimers'["natural"] = advanceTimers["natural"] + 1]_vars

\* C10 witness: read-along, listening to the user's current line after its
\* utterance ended (the status is still the one of the utterance).
C10_Witness ==
    /\ isPracticing
    /\ practiceMode = "read-along"
    /\ lines[recognitionLine + 1] = selectedCharacter
    /\ recognitionRef = "listening"
    /\ recognitionLine = currentLineIndex
    /\ utterances = <<>>
    /\ status = "Speaking"

\* C11: a recognition error other than 'aborted' sets the status message
\* and the session goes on: isPracticing is unchanged and the end of the
\* request schedules the delayed advance as after a result; the end of an
\* aborted request (error 'aborted') leaves the status alone.
C11_ErrorKeepsSessionGoing ==
    /\ [][RecognitionEnds("no-speech") =>
            /\ status' = "Sorry"
            /\ isPracticing' = isPracticing
            /\ currentLineIndex' = currentLineIndex
            /\ advanceTimers'["natural"] = advanceTimers["natural"] + 1]_vars
    /\ [][AbortedEnd => status' = status]_vars
    /\ [][TimerAdvance =>
            currentLineIndex' = AdvanceIndex(currentLineIndex)]_vars

\* C11 witness: the user's line was listened to, the request ended with an
\* error, and the delayed advance is pending in a running session.
C11_Witness ==
    /\ isPracticing
    /\ status = "Sorry"
    /\ recognitionRef = "ended"
    /\ advanceTimers["natural"] = 1

\* C12: without speech recognition a session cannot start: the engine is
\* never practicing and never has an utterance or a request outstanding.
C12_UnsupportedCannotStart ==
    ~isSpeechSupported =>
        /\ ~isPracticing
        /\ utterances = <<>>
        /\ InFlight = 0

\* C13: the step that calls getUserMedia issues the recognition request; a
\* rejected getUserMedia changes nothing but the promise: no recorder is
\* started, the request in flight stays in flight, the cursor stays; and
\* with no recorder running, the end of the request leaves the cursor,
\* schedules one delayed advance and leaves the recorder alone, as with
\* recording disabled.
C13_MicDeniedListeningProceeds ==
    /\ [][micPending' > micPending =>
            /\ recognitionRef' = "listening"
            /\ InFlight' >= 1]_vars
    /\ [][MicDenied =>
            /\ mediaRecorder' = mediaRecorder
            /\ recognitionRef' = recognitionRef
            /\ recognitionLine' = recognitionLine
            /\ orphans' = orphans
            /\ abortedEnds' = abortedEnds
            /\ isPracticing' = isPracticing
            /\ currentLineIndex' = currentLineIndex
            /\ status' = status
            /\ advanceTimers' = advanceTimers]_vars
    /\ [][(RecognitionEnd /\ mediaRecorder # "recording") =>
            /\ currentLineIndex' = currentLineIndex
            /\ mediaRecorder' = mediaRecorder
            /\ advanceTimers'["natural"] = advanceTimers["natural"] + 1]_vars

\* C13 witness: recording is enabled, the microphone was refused (no promise
\* is pending and no recorder was ever created) and the user's line is being
\* listened to.
C13_Witness ==
    /\ isRecordAndPlaybackEnabled
    /\ isPracticing
    /\ recognitionRef = "listening"
    /\ recognitionLine = currentLineIndex
    /\ micPending = 0
    /\ mediaRecorder = "null"

Word(w, st) == [word |-> w, status |-> st]

ExampleScored ==
    /\ phase = "scored"
    /\ original = ToBeOrNotToBe
    /\ transcript = ToBeOrNotTooBe

\* C14 as stated: scoring "To be or not to be" against "to be or not too be"
\* gives to, be, or, not correct, the second "to" incorrect and the second
\* "be" correct.
C14_WorkedExampleAsStated ==
    ExampleScored =>
        accuracyReport =
            << Word(<<"t", "o">>, "correct"), Word(<<"b", "e">>, "correct"),
               Word(<<"o", "r">>, "correct"), Word(<<"n", "o", "t">>, "correct"),
               Word(<<"t", "o">>, "incorrect"), Word(<<"b", "e">>, "correct") >>

\* C14 amended: scoring "To be or not to be" against "to be or not too be"
\* gives to, be, or, not correct and both the second "to" and the second
\* "be" incorrect: the transcript cursor stays on "too".
C14_WorkedExample ==
    ExampleScored =>
        accuracyReport =
            << Word(<<"t", "o">>, "correct"), Word(<<"b", "e">>, "correct"),
               Word(<<"o", "r">>, "correct"), Word(<<"n", "o", "t">>, "correct"),
               Word(<<"t", "o">>, "incorrect"), Word(<<"b", "e">>, "incorrect") >>

\* C14 witness: the example has been scored.
C14_Witness == ExampleScored /\ Len(accuracyReport) = 6

\* The words of a text, counted on the text itself: a word starts where a
\* run of non-blank characters starts, if the run has a character of \w.
WordStarts(text) ==
    {i \in DOMAIN text :
        /\ text[i] \notin Whitespace
        /\ i = 1 \/ text[i - 1] \in Whitespace
        /\ \E j \in i..Len(text) :
              /\ text[j] \in WordChars
              /\ \A k \in i..j : text[k] \notin Whitespace}

\* C15: the report has one entry per normalized word of the expected line,
\* in the line's order, and every status is correct or incorrect, never
\* missing, whatever the transcript.
C15_OneEntryPerWord ==
    phase = "scored" =>
        /\ Len(accuracyReport) = Cardinality(WordStarts(original))
        /\ Len(accuracyReport) = Len(NormalizedWords(original))
        /\ \A i \in DOMAIN accuracyReport :
              /\ accuracyReport[i].word = NormalizedWords(original)[i]
              /\ accuracyReport[i].status \in {"correct", "incorrect"}

\* C15 witness: a line of two words scored against a transcript of fewer
\* words.
C15_Witness ==
    /\ phase = "scored"
    /\ Len(accuracyReport) = 2
    /\ Len(NormalizedWords(transcript)) = 1
    /\ accuracyReport[1].status = "correct"
    /\ accuracyReport[2].status = "incorrect"

\* C20: Skip Line pressed while the delayed advance of the turn's listening
\* is pending moves the cursor once: that advance, when it fires in the
\* running session, leaves the cursor where the skip put it.
C20_SkipAdvancesOnce ==
    [][(isPracticing /\ advanceTimers'["superseded"] < advanceTimers["superseded"])
          => currentLineIndex' = currentLineIndex]_vars

\* The input lines of a text, found on the text itself: a line starts at
\* position 1 and behind every line feed.
LineStarts(text) ==
    {i \in 1..(Len(text) + 1) : i = 1 \/ text[i - 1] = "\n"}

LineAt(text, i) ==
    SubSeq(text, i,
           (CHOOSE e \in i..(Len(text) + 1) :
               /\ e = Len(text) + 1 \/ text[e] = "\n"
               /\ \A j \in i..(e - 1) : text[j] # "\n") - 1)

ColonLineStarts(text) ==
    {i \in LineStarts(text) : \E j \in DOMAIN LineAt(text, i) : LineAt(text, i)[j] = ":"}

\* What stands before the first colon of a line
BeforeColon(line) ==
    SubSeq(line, 1,
           (CHOOSE k \in DOMAIN line :
               line[k] = ":" /\ \A j \in 1..(k - 1) : line[j] # ":") - 1)

\* C16: parsing yields one entry for each input line that has a colon and
\* none for the others, in the order of the input lines: the k-th entry
\* carries the character written before the first colon of the k-th line
\* that has a colon.
C16_OneEntryPerColonLine ==
    phase = "parsed" =>
        /\ Len(parsedLines) = Cardinality(ColonLineStarts(script))
        /\ \A i \in ColonLineStarts(script) :
              LET k == Cardinality({j \in ColonLineStarts(script) : j <= i})
              IN  parsedLines[k].character
                      = toUpperCase(trim(BeforeColon(LineAt(script, i))))

\* C16 witness: three input lines, the middle one without a colon, parsed
\* into two entries of different characters.
C16_Witness ==
    /\ phase = "parsed"
    /\ Cardinality(LineStarts(script)) = 3
    /\ Cardinality(ColonLineStarts(script)) = 2
    /\ 1 \in ColonLineStarts(script)
    /\ Len(parsedLines) = 2
    /\ parsedLines[1].character # parsedLines[2].character

FirstAppearance(c) ==
    CHOOSE i \in DOMAIN parsedLines :
        /\ parsedLines[i].character = c
        /\ \A j \in 1..(i - 1) : parsedLines[j].character # c

\* C17: the roster holds the characters of the parsed lines, each once, in
\* the order of their first appearance; it is empty when no line is parsed.
C17_RosterFirstAppearance ==
    phase = "parsed" =>
        /\ Range(characters) = {parsedLines[i].character : i \in DOMAIN parsedLines}
        /\ \A i, j \in DOMAIN characters :
              i < j => /\ characters[i] # characters[j]
                       /\ FirstAppearance(characters[i])
                              < FirstAppearance(characters[j])
        /\ parsedLines = <<>> => characters = <<>>

\* C17 witness: three parsed lines, the first character coming back after
\* another one.
C17_Witness ==
    /\ phase = "parsed"
    /\ Len(parsedLines) = 3
    /\ parsedLines[1].character = parsedLines[3].character
    /\ parsedLines[1].character # parsedLines[2].character
    /\ Len(characters) = 2

\* A fresh start has loaded what the last session saved and is at rest.
Reloaded == phase = "running" /\ saved.stored

\* C18: after save and load every persisted setting has the value that was
\* saved: the script, rate, pitch and volume down to their minimum, the
\* language, both switches, the mode and the loop bounds.
C18_SettingsRoundTrip ==
    Reloaded =>
        /\ script = saved.script
        /\ settings.speechRate = saved.settings.speechRate
        /\ settings.pitch = saved.settings.pitch
        /\ settings.volume = saved.settings.volume
        /\ settings.selectedLang = saved.settings.selectedLang
        /\ settings.isAccuracyCheckEnabled = saved.settings.isAccuracyCheckEnabled
        /\ settings.practiceMode = saved.settings.practiceMode
        /\ settings.isRecordAndPlaybackEnabled
               = saved.settings.isRecordAndPlaybackEnabled
        /\ settings.loopStartLine = saved.settings.loopStartLine
        /\ settings.loopEndLine = saved.settings.loopEndLine

\* C19: after save and load the chosen character is the saved one whenever
\* the saved one is in the roster of the saved script, at any position.
C19_CharacterRoundTrip ==
    (/\ Reloaded
     /\ saved.settings.selectedCharacter
            \in Range(uniqueCharacters(parseScript(saved.script))))
        => settings.selectedCharacter = saved.settings.selectedCharacter

\* C21: every entry into a phase sets the status of that phase: a step that
\* queues an utterance leaves the status Speaking, a step that issues a
\* recognition request leaves it Listening (the request a read-along turn
\* issues after its utterance included), and a step that takes the 'Script
\* finished!' branch leaves it Finished.
C21_StatusPerTransition ==
    [][/\ Len(utterances') > Len(utterances) => status' = "Speaking"
       /\ InFlight' > InFlight => status' = "Listening"
       /\ finishedCount' > finishedCount => status' = "Finished"]_vars

IsCorrect(entry) == entry.status = "correct"

\* C22: the report is the one of the one-pass greedy scan: with the cursor
\* of word i being the number of words marked correct before it, word i is
\* correct exactly when the cursor is within the transcript and the
\* transcript word at the cursor is the expected word; so the words marked
\* correct, in order, are a prefix of the transcript words.
C22_GreedyReference ==
    phase = "scored" =>
        LET ow == NormalizedWords(original)
            tw == NormalizedWords(transcript)
            Cursor(i) ==
                Cardinality({j \in 1..(i - 1) : IsCorrect(accuracyReport[j])})
            marked == SelectSeq(accuracyReport, IsCorrect)
        IN  /\ Len(accuracyReport) = Len(ow)
            /\ \A i \in DOMAIN accuracyReport :
                  /\ accuracyReport[i].word = ow[i]
                  /\ IsCorrect(accuracyReport[i])
                         <=> (/\ Cursor(i) < Len(tw)
                              /\ ow[i] = tw[Cursor(i) + 1])
            /\ Len(marked) <= Len(tw)
            /\ \A k \in DOMAIN marked : marked[k].word = tw[k]

\* C22 witness: a word that fails leaves the cursor, and the next word is
\* matched against the same transcript word.
C22_Witness ==
    /\ phase = "scored"
    /\ Len(accuracyReport) >= 2
    /\ accuracyReport[1].status = "incorrect"
    /\ accuracyReport[2].status = "correct"
    /\ accuracyReport[2].word = NormalizedWords(transcript)[1]

\* The characters of a character token, in any letter case
TokenChars == NameChars \cup Range(LowerLetters)

\* What stands behind the first colon of a line, without the leading blanks
AfterColon(line) ==
    trimStart(SubSeq(line, Len(BeforeColon(line)) + 2, Len(line)))

\* A line of the structured form: a token of allowed characters, a colon, and
\* a parenthetical at the head of what follows
Structured(line) ==
    /\ \E j \in DOMAIN line : line[j] = ":"
    /\ BeforeColon(line) # <<>>
    /\ \A j \in DOMAIN BeforeColon(line) : BeforeColon(line)[j] \in TokenChars
    /\ AfterColon(line) # <<>>
    /\ Head(AfterColon(line)) = "("
    /\ \E j \in DOMAIN AfterColon(line) : AfterColon(line)[j] = ")"

StructuredEntry(line) ==
    LET body == AfterColon(line)
        close == CHOOSE j \in DOMAIN body :
                    body[j] = ")" /\ \A h \in 1..(j - 1) : body[h] # ")"
    IN  [character |-> toUpperCase(trim(BeforeColon(line))),
         direction |-> trim(SubSeq(body, 2, close - 1)),
         dialogue |-> trim(SubSeq(body, close + 1, Len(body)))]

\* C23: a line whose character token has only allowed characters, in any
\* letter case, followed by a colon and a leading parenthetical is parsed
\* into the upper-cased token, the text inside the parenthetical as the
\* direction and the text behind it as the dialogue.
C23_TokenCaseInsensitive ==
    phase = "parsed" =>
        \A i \in ColonLineStarts(script) :
            LET line == trim(LineAt(script, i))
                k == Cardinality({j \in ColonLineStarts(script) : j <= i})
            IN  Structured(line) => parsedLines[k] = StructuredEntry(line)

\* C24: while a session is practicing the cursor is within 0 .. lines.length.
C24_CursorWithinScript ==
    isPracticing => (0 <= currentLineIndex /\ currentLineIndex <= Len(lines))

\* C25: a delayed advance that was pending when Stop was pressed changes
\* neither the cursor nor the practicing flag of the session started
\* afterwards.
C25_SessionsIsolated ==
    [][(isPracticing /\ advanceTimers'["superseded"] < advanceTimers["superseded"])
          => (currentLineIndex' = currentLineIndex /\ isPracticing')]_vars

====
